---- MODULE Spec2Model ----
(***************************************************************************)
(* Model of bootstrap.py: the self-updating launcher of Spectra            *)
(* Processing.  The state is the on-disk state the launcher shares between *)
(* invocations (versions directory, current.json, the per-version venv,    *)
(* the user data file), the head of the remote default branch, and the     *)
(* position and locals of each running invocation of main().               *)
(***************************************************************************)
EXTENDS Integers, FiniteSets, Sequences, TLC

\* ------------------------------------------------------------------ bounds
NumRevs == 2
Revs == 1..NumRevs
Procs == {"p1", "p2"}
AppExitCodes == {0, 3}

\* Python's None, per type: no sha, no path, no exit status yet
NoSha == 0
NoPath == <<"none", NoSha>>
NoExit == -1

\* ------------------------------------------------------------------ state
VARIABLES
    store,      \* VERSIONS_DIR/<sha>: "absent" | "partial" | "complete"
    venv,       \* <sha>/.venv: "none" | "partial" (interpreter, no pip yet) | "created"
    deps,       \* project pip-installed into <sha>/.venv
    pointer,    \* CURRENT_FILE: its state ("absent" | "truncated" | "json") and content
    data,       \* DATA_DIR/fluorophor_data.txt: "absent" | "user" | "seeded"
    head,       \* latest commit of the default branch at the provider
    inv         \* per invocation of main(): position, flags, locals, history

vars == <<store, venv, deps, pointer, data, head, inv>>

\* VERSIONS_DIR / sha
VersionPath(sha) == <<"versions", sha>>

\* Path.exists() for a path below VERSIONS_DIR
PathExists(path) == path # NoPath /\ store[path[2]] # "absent"

\* py.exists() for the interpreter of the venv inside project_dir
PyExists(project_dir) == venv[project_dir[2]] # "none"

\* CURRENT_FILE holding json.dumps({"sha": ..., "path": ...})
PointerRecord(commit_sha, install_path) ==
    [state |-> "json", sha |-> commit_sha, path |-> install_path]

\* CURRENT_FILE missing, and CURRENT_FILE opened for writing but not yet written
PointerAbsent == [state |-> "absent", sha |-> NoSha, path |-> NoPath]
PointerTruncated == [state |-> "truncated", sha |-> NoSha, path |-> NoPath]

\* the dict (or None) that read_current returns
NoneDict == [sha |-> NoSha, path |-> NoPath]

IdleInvocation ==
    [pc |-> "idle", no_update |-> FALSE, force |-> FALSE, current |-> NoneDict,
     latest_sha |-> NoSha, installed_dir |-> NoPath, py |-> NoPath, ret |-> "none",
     result |-> "none", exit |-> NoExit, app_exit |-> NoExit,
     \* history: what the invocation did, and the disk as it found it
     ev |-> {}, ptr0 |-> PointerAbsent, had |-> {}]

Init ==
    /\ store = [r \in Revs |-> "absent"]
    /\ venv = [r \in Revs |-> "none"]
    /\ deps = [r \in Revs |-> FALSE]
    /\ pointer = PointerAbsent
    /\ data \in {"absent", "user"}
    /\ head \in Revs
    /\ inv = [p \in Procs |-> IdleInvocation]

\* ---------------------------------------------------------------- helpers
At(p, label) == inv[p].pc = label

Goto(p, label, event) ==
    inv' = [inv EXCEPT ![p].pc = label, ![p].ev = @ \cup event]

\* An uncaught exception or SystemExit(message): the interpreter exits with 1.
Raise(p, err, event) ==
    inv' = [inv EXCEPT ![p].pc = "idle", ![p].result = err, ![p].exit = 1,
                       ![p].ev = @ \cup event]

Disk == <<store, venv, deps, pointer, data>>

\* ------------------------------------------------------------------ main
\* the install branch with pip_install_project left out
Pipeline_no_pip ==
    <<"install_from_commit_zip", "ensure_venv",
      "seed_data_if_missing", "write_current", "run_app">>

\* the install branch with write_current moved before pip_install_project
Pipeline_write_first ==
    <<"install_from_commit_zip", "ensure_venv", "write_current",
      "pip_install_project", "seed_data_if_missing", "run_app">>

\* the install branch of main, in the order of its calls
Pipeline ==
    <<"install_from_commit_zip", "ensure_venv", "pip_install_project",
      "seed_data_if_missing", "write_current", "run_app">>

\* the call that follows `call` in the install branch
After(call) ==
    LET i == CHOOSE k \in 1..(Len(Pipeline) - 1) : Pipeline[k] = call
    IN  Pipeline[i + 1]

\* parse_args + ensure_dirs
main(p) ==
    /\ At(p, "idle")
    /\ \E nu \in BOOLEAN, f \in BOOLEAN :
          inv' = [inv EXCEPT ![p] = [IdleInvocation EXCEPT
                     !.pc = "read_current", !.no_update = nu, !.force = f,
                     !.ptr0 = pointer,
                     !.had = {r \in Revs : store[r] # "absent"}]]
    /\ UNCHANGED <<Disk, head>>

\* read_current(): None when the file is missing, json.loads raises on a
\* truncated file; main then takes current["sha"] and current["path"].
read_current(p) ==
    /\ At(p, "read_current")
    /\ IF pointer.state = "truncated"
          THEN Raise(p, "JSONDecodeError", {})
          ELSE inv' = [inv EXCEPT
                  ![p].current = IF pointer.state = "absent" THEN NoneDict
                                 ELSE [sha |-> pointer.sha, path |-> pointer.path],
                  ![p].pc = IF inv[p].no_update THEN "no_update" ELSE "get_default_branch"]
    /\ UNCHANGED <<Disk, head>>

current_sha(p) == IF inv[p].current = NoneDict THEN NoSha ELSE inv[p].current.sha

current_path(p) == IF inv[p].current = NoneDict THEN NoPath ELSE inv[p].current.path

\* get_default_branch with a fallback to the recorded version when the
\* provider cannot be reached
get_default_branch_cached_fallback(p) ==
    /\ At(p, "get_default_branch")
    /\ \/ Goto(p, "get_latest_commit_sha", {"provider"})
       \/ IF current_path(p) # NoPath /\ PathExists(current_path(p))
             THEN inv' = [inv EXCEPT ![p].pc = "ensure_venv", ![p].ret = "run",
                                     ![p].installed_dir = current_path(p),
                                     ![p].ev = @ \cup {"provider"}]
             ELSE Raise(p, "URLError", {"provider"})
    /\ UNCHANGED <<Disk, head>>

get_default_branch(p) ==
    /\ At(p, "get_default_branch")
    /\ \/ Goto(p, "get_latest_commit_sha", {"provider"})
       \/ Raise(p, "URLError", {"provider"})
    /\ UNCHANGED <<Disk, head>>

get_latest_commit_sha(p) ==
    /\ At(p, "get_latest_commit_sha")
    /\ \/ inv' = [inv EXCEPT ![p].latest_sha = head, ![p].pc = "needs_install",
                               ![p].ev = @ \cup {"provider"}]
       \/ Raise(p, "URLError", {"provider"})
       \/ Raise(p, "RuntimeError", {"provider", "no_commits"})
    /\ UNCHANGED <<Disk, head>>

\* needs_install without the check that the recorded directory is still there
needs_install_no_exists_check(p) ==
    \/ inv[p].force
    \/ current_sha(p) # inv[p].latest_sha
    \/ current_path(p) = NoPath

\* needs_install with the `not` of `not current_path` dropped
needs_install_path_inverted(p) ==
    \/ inv[p].force
    \/ current_sha(p) # inv[p].latest_sha
    \/ current_path(p) # NoPath
    \/ ~PathExists(current_path(p))

\* needs_install without args.force
needs_install_no_force(p) ==
    \/ current_sha(p) # inv[p].latest_sha
    \/ current_path(p) = NoPath
    \/ ~PathExists(current_path(p))

needs_install(p) ==
    \/ inv[p].force
    \/ current_sha(p) # inv[p].latest_sha
    \/ current_path(p) = NoPath
    \/ ~PathExists(current_path(p))

main_decide(p) ==
    /\ At(p, "needs_install")
    /\ IF needs_install(p)
          THEN inv' = [inv EXCEPT ![p].pc = Pipeline[1], ![p].ret = "install"]
          ELSE inv' = [inv EXCEPT ![p].pc = "ensure_venv", ![p].ret = "run",
                                  ![p].installed_dir = current_path(p)]
    /\ UNCHANGED <<Disk, head>>

\* the --no-update path
main_no_update(p) ==
    /\ At(p, "no_update")
    /\ IF current_path(p) = NoPath \/ ~PathExists(current_path(p))
          THEN Raise(p, "SystemExit", {})
          ELSE inv' = [inv EXCEPT ![p].pc = "ensure_venv", ![p].ret = "run",
                                  ![p].installed_dir = current_path(p)]
    /\ UNCHANGED <<Disk, head>>

\* ------------------------------------------------- install_from_commit_zip
target(p) == VersionPath(inv[p].latest_sha)

\* install_from_commit_zip without the early return
install_from_commit_zip_always_downloads(p) ==
    /\ At(p, "install_from_commit_zip")
    /\ Goto(p, "download_bytes", {})
    /\ UNCHANGED <<Disk, head>>

\* install_from_commit_zip that clears an existing directory under --force
install_from_commit_zip_force_clears(p) ==
    /\ At(p, "install_from_commit_zip")
    /\ IF PathExists(target(p)) /\ inv[p].force
          THEN /\ store' = [store EXCEPT ![inv[p].latest_sha] = "absent"]
               /\ venv' = [venv EXCEPT ![inv[p].latest_sha] = "none"]
               /\ deps' = [deps EXCEPT ![inv[p].latest_sha] = FALSE]
               /\ Goto(p, "download_bytes", {})
          ELSE /\ UNCHANGED <<store, venv, deps>>
               /\ IF PathExists(target(p))
                     THEN inv' = [inv EXCEPT ![p].installed_dir = target(p),
                                             ![p].pc = After("install_from_commit_zip"),
                                             ![p].ev = @ \cup {"install_ok"}]
                     ELSE Goto(p, "download_bytes", {})
    /\ UNCHANGED <<pointer, data, head>>

\* target.exists(): return target without downloading
install_from_commit_zip(p) ==
    /\ At(p, "install_from_commit_zip")
    /\ IF PathExists(target(p))
          THEN inv' = [inv EXCEPT ![p].installed_dir = target(p),
                                  ![p].pc = After("install_from_commit_zip"),
                                  ![p].ev = @ \cup {"install_ok"}]
          ELSE Goto(p, "download_bytes", {})
    /\ UNCHANGED <<Disk, head>>

download_bytes(p) ==
    /\ At(p, "download_bytes")
    /\ \/ Goto(p, "extract_zip", {"provider", "fetch"})
       \/ Raise(p, "URLError", {"provider", "fetch"})
    /\ UNCHANGED <<Disk, head>>

\* extraction that makes the target directory before it looks at the roots
extract_zip_makes_target_first(p) ==
    /\ At(p, "extract_zip")
    /\ store' = [store EXCEPT ![inv[p].latest_sha] = "partial"]
    /\ \/ Goto(p, "copytree_copy", {"extract", "created"})
       \/ Raise(p, "BadZipFile", {"extract"})
       \/ Raise(p, "RuntimeError", {"extract", "no_roots"})
    /\ UNCHANGED <<venv, deps, pointer, data, head>>

\* extract into the TemporaryDirectory, then list its top-level directories
extract_zip(p) ==
    /\ At(p, "extract_zip")
    /\ \/ Goto(p, "copytree", {"extract"})
       \/ Raise(p, "BadZipFile", {"extract"})
       \/ Raise(p, "RuntimeError", {"extract", "no_roots"})
    /\ UNCHANGED <<Disk, head>>

\* shutil.copytree(extracted_root, target) begins with os.makedirs(target),
\* which raises FileExistsError when target is already there
copytree_makedirs(p) ==
    /\ At(p, "copytree")
    /\ IF PathExists(target(p))
          THEN Raise(p, "FileExistsError", {}) /\ UNCHANGED store
          ELSE /\ store' = [store EXCEPT ![inv[p].latest_sha] = "partial"]
               /\ Goto(p, "copytree_copy", {"created"})
    /\ UNCHANGED <<venv, deps, pointer, data, head>>

\* ... and then copies the files one by one
copytree_copy(p) ==
    /\ At(p, "copytree_copy")
    /\ \/ /\ store' = [store EXCEPT ![inv[p].latest_sha] = "complete"]
          /\ inv' = [inv EXCEPT ![p].installed_dir = target(p),
                                ![p].pc = After("install_from_commit_zip"),
                                ![p].ev = @ \cup {"install_ok"}]
       \/ Raise(p, "shutil.Error", {}) /\ UNCHANGED store
    /\ UNCHANGED <<venv, deps, pointer, data, head>>

\* ------------------------------------------------------------ ensure_venv
\* where main continues after ensure_venv returns
AfterEnsureVenv(p) ==
    IF inv[p].ret = "install" THEN After("ensure_venv") ELSE "run_app"

project(p) == inv[p].installed_dir[2]

\* ensure_venv without the py.exists() test
ensure_venv_always_creates(p) ==
    /\ At(p, "ensure_venv")
    /\ Goto(p, "venv_create", {"ensure_venv"})
    /\ UNCHANGED <<Disk, head>>

ensure_venv(p) ==
    /\ At(p, "ensure_venv")
    /\ IF PyExists(inv[p].installed_dir)
          THEN inv' = [inv EXCEPT ![p].py = inv[p].installed_dir,
                                  ![p].pc = AfterEnsureVenv(p),
                                  ![p].ev = @ \cup {"ensure_venv", "venv_ok"}]
          ELSE Goto(p, "venv_create", {"ensure_venv"})
    /\ UNCHANGED <<Disk, head>>

\* python -m venv: the interpreter is placed first ...
venv_create(p) ==
    /\ At(p, "venv_create")
    /\ venv' = [venv EXCEPT ![project(p)] = IF @ = "none" THEN "partial" ELSE @]
    /\ Goto(p, "venv_ensurepip", {"venv_create"})
    /\ UNCHANGED <<store, deps, pointer, data, head>>

\* ... and pip is bootstrapped into it after
venv_ensurepip(p) ==
    /\ At(p, "venv_ensurepip")
    /\ \/ /\ venv' = [venv EXCEPT ![project(p)] = IF @ = "partial" THEN "created" ELSE @]
          /\ Goto(p, "venv_upgrade", {})
       \/ Raise(p, "CalledProcessError", {}) /\ UNCHANGED venv
    /\ UNCHANGED <<store, deps, pointer, data, head>>

\* py -m pip install --upgrade pip setuptools wheel: newer tools in a venv
\* that has them already
venv_upgrade(p) ==
    /\ At(p, "venv_upgrade")
    /\ \/ inv' = [inv EXCEPT ![p].py = inv[p].installed_dir,
                             ![p].pc = AfterEnsureVenv(p),
                             ![p].ev = @ \cup {"venv_ok"}]
       \/ Raise(p, "CalledProcessError", {})
    /\ UNCHANGED <<Disk, head>>

\* py -m pip install . : needs pip in the venv
pip_install_project(p) ==
    /\ At(p, "pip_install_project")
    /\ \/ /\ venv[project(p)] = "created"
          /\ deps' = [deps EXCEPT ![project(p)] = TRUE]
          /\ Goto(p, After("pip_install_project"), {"pip_ok"})
       \/ Raise(p, "CalledProcessError", {}) /\ UNCHANGED deps
    /\ UNCHANGED <<store, venv, pointer, data, head>>

\* --------------------------------------------------- seed_data_if_missing
seed_data_if_missing(p) ==
    /\ At(p, "seed_data_if_missing")
    /\ IF data # "absent"
          THEN Goto(p, After("seed_data_if_missing"), {}) /\ UNCHANGED data
          ELSE \/ data' = "seeded" /\ Goto(p, After("seed_data_if_missing"), {"seeded"})
               \/ UNCHANGED data /\ Goto(p, After("seed_data_if_missing"), {"seed_warning"})
               \/ UNCHANGED data /\ Raise(p, "OSError", {})
    /\ UNCHANGED <<store, venv, deps, pointer, head>>

\* ---------------------------------------------------------- write_current
\* write_text opens CURRENT_FILE for writing, which truncates it ...
write_current_open(p) ==
    /\ At(p, "write_current")
    /\ pointer' = PointerTruncated
    /\ Goto(p, "write_current_write", {"write"})
    /\ UNCHANGED <<store, venv, deps, data, head>>

\* write_current recording the path of the record read at start
write_current_write_stale_path(p) ==
    /\ At(p, "write_current_write")
    /\ pointer' = PointerRecord(inv[p].latest_sha, current_path(p))
    /\ Goto(p, After("write_current"), {"written"})
    /\ UNCHANGED <<store, venv, deps, data, head>>

\* ... and then writes the record
write_current_write(p) ==
    /\ At(p, "write_current_write")
    /\ pointer' = PointerRecord(inv[p].latest_sha, inv[p].installed_dir)
    /\ Goto(p, After("write_current"), {"written"})
    /\ UNCHANGED <<store, venv, deps, data, head>>

\* ---------------------------------------------------------------- run_app
\* the exit status turned into success or failure only
ExitStatus_flattened(n) == IF n = 0 THEN 0 ELSE 1

\* raise SystemExit(main()): the status the launcher exits with
ExitStatus(n) == n % 256

\* subprocess.call(cmd) returns the status of the application; main returns it
run_app(p) ==
    /\ At(p, "run_app")
    /\ \E code \in AppExitCodes :
          inv' = [inv EXCEPT ![p].pc = "idle", ![p].result = "launched",
                             ![p].app_exit = code, ![p].exit = ExitStatus(code),
                             ![p].ev = @ \cup {"launch"}]
    /\ UNCHANGED <<Disk, head>>

\* ------------------------------------------------------------ environment
\* the process is killed between two steps: its locals are gone, and the disk
\* stays as the last step left it
kill(p) ==
    /\ ~At(p, "idle")
    /\ inv' = [inv EXCEPT ![p] = [IdleInvocation EXCEPT !.result = "killed", !.exit = 137]]
    /\ UNCHANGED <<Disk, head>>

\* an artifact directory is removed by hand while no invocation runs; what
\* the invocations before it did is history of another disk
external_delete(r) ==
    /\ \A p \in Procs : At(p, "idle")
    /\ store[r] # "absent"
    /\ store' = [store EXCEPT ![r] = "absent"]
    /\ venv' = [venv EXCEPT ![r] = "none"]
    /\ deps' = [deps EXCEPT ![r] = FALSE]
    /\ inv' = [p \in Procs |-> IdleInvocation]
    /\ UNCHANGED <<pointer, data, head>>

\* a new commit lands on the default branch
push(r) ==
    /\ r # head
    /\ head' = r
    /\ UNCHANGED <<Disk, inv>>

\* ----------------------------------------------------------- specification
\* the steps of an invocation that has started
Running(p) ==
    \/ read_current(p) \/ get_default_branch(p)
    \/ get_latest_commit_sha(p) \/ main_decide(p) \/ main_no_update(p)
    \/ install_from_commit_zip(p) \/ download_bytes(p) \/ extract_zip(p)
    \/ copytree_makedirs(p) \/ copytree_copy(p)
    \/ ensure_venv(p) \/ venv_create(p) \/ venv_ensurepip(p) \/ venv_upgrade(p)
    \/ pip_install_project(p) \/ seed_data_if_missing(p)
    \/ write_current_open(p) \/ write_current_write(p) \/ run_app(p)
    \/ kill(p)

Step(p) == main(p) \/ Running(p)

Environment == \E r \in Revs : external_delete(r) \/ push(r)

\* one invocation at a time, any number of them one after the other
Main == CHOOSE p \in Procs : TRUE

Next == Step(Main) \/ Environment

Spec == Init /\ [][Next]_vars

\* two invocations, one per process, that may overlap
FirstRun(p) == inv[p].result = "none"

NextRace ==
    \/ \E p \in Procs : (FirstRun(p) /\ main(p)) \/ Running(p)
    \/ \E r \in Revs : push(r)

SpecRace == Init /\ [][NextRace]_vars

\* ------------------------------------------------------------------ claims
\* how an invocation can end in an uncaught exception or SystemExit
Errors ==
    {"JSONDecodeError", "URLError", "BadZipFile", "RuntimeError", "FileExistsError",
     "shutil.Error", "CalledProcessError", "OSError", "SystemExit"}

Failed(p) == inv[p].result \in Errors

Finished(p) == At(p, "idle") /\ inv[p].result # "none"

\* C1: CURRENT_FILE changes only in the hands of an invocation that is at
\* write_current after install_from_commit_zip, ensure_venv and
\* pip_install_project all returned for its latest_sha; at that moment the
\* directory it records exists, its interpreter exists and the project is
\* installed into it, and what is written is that sha with that directory.
C1_PointerWrittenAfterPreparation ==
    [][pointer' # pointer =>
        \E p \in Procs :
            /\ inv[p].pc \in {"write_current", "write_current_write"}
            /\ {"install_ok", "venv_ok", "pip_ok"} \subseteq inv[p].ev
            /\ inv[p].installed_dir = VersionPath(inv[p].latest_sha)
            /\ inv[p].py = inv[p].installed_dir
            /\ PathExists(inv[p].installed_dir)
            /\ PyExists(inv[p].installed_dir)
            /\ deps[inv[p].latest_sha]
            /\ pointer' \in {PointerTruncated,
                              PointerRecord(inv[p].latest_sha, inv[p].installed_dir)}]_vars

C1_Witness ==
    \E p \in Procs :
        /\ "written" \in inv[p].ev
        /\ pointer = PointerRecord(inv[p].latest_sha, VersionPath(inv[p].latest_sha))
        /\ {"install_ok", "venv_ok", "pip_ok"} \subseteq inv[p].ev

\* C2: an invocation that ended in an error (provider, download, extraction,
\* copy, venv, pip, seeding, nothing installed) leaves CURRENT_FILE as it
\* found it, a missing file included.
C2_FailureKeepsPointer ==
    \A p \in Procs : Failed(p) => pointer = inv[p].ptr0

C2_Witness ==
    \E p \in Procs :
        /\ inv[p].result = "CalledProcessError"
        /\ inv[p].ptr0.state = "json"
        /\ inv[p].latest_sha # inv[p].ptr0.sha
        /\ "created" \in inv[p].ev
        /\ pointer = inv[p].ptr0

\* C3: a directory at VERSIONS_DIR/<sha> that no invocation is copying into
\* is the complete tree: an install that stopped before its end (an exception
\* or a kill, in the middle of the copy included) leaves no directory there.
C3_InterruptedInstallInvisible ==
    \A r \in Revs :
        (PathExists(VersionPath(r))
         /\ ~\E p \in Procs : At(p, "copytree_copy") /\ inv[p].latest_sha = r)
        => store[r] = "complete"

\* C4: of two invocations that overlap, none ends in the FileExistsError of a
\* copy into a directory the other one made, and once both are over every
\* directory an install returned is the complete tree.
C4_InstallRaceSafe ==
    /\ \A p \in Procs : inv[p].result # "FileExistsError"
    /\ (\A p \in Procs : Finished(p)) =>
          \A p \in Procs : "install_ok" \in inv[p].ev
                               => store[inv[p].latest_sha] = "complete"

\* C5: an invocation without --no-update that finds CURRENT_FILE unreadable
\* does not abort on it.
C5_CorruptPointerRecovered ==
    \A p \in Procs :
        (~inv[p].no_update /\ inv[p].ptr0.state = "truncated")
        => inv[p].result # "JSONDecodeError"

\* the condition of C6, on the disk instead of on the locals of main
InstallRequired(p) ==
    \/ inv[p].force
    \/ pointer.state = "absent"
    \/ pointer.sha # inv[p].latest_sha
    \/ store[pointer.path[2]] = "absent"

\* C6: once the latest sha is known, main enters the install branch exactly
\* when --force is given, or CURRENT_FILE is missing, or it records another
\* sha, or the directory it records is not on disk; otherwise it goes on to
\* run the recorded directory.
C6_InstallIffNeeded ==
    [][\A p \in Procs :
          (At(p, "needs_install") /\ inv'[p].pc \notin {"needs_install", "idle"})
          => /\ (inv'[p].pc = "install_from_commit_zip") <=> InstallRequired(p)
             /\ (inv'[p].ret = "install") <=> InstallRequired(p)
             /\ ~InstallRequired(p) =>
                   /\ inv'[p].pc = "ensure_venv"
                   /\ inv'[p].installed_dir = pointer.path]_vars

\* the recorded sha is the latest one, its directory was removed by hand
C6_Witness ==
    \E p \in Procs :
        /\ ~inv[p].no_update /\ ~inv[p].force
        /\ inv[p].ptr0.state = "json"
        /\ inv[p].ptr0.sha = inv[p].latest_sha
        /\ inv[p].latest_sha \notin inv[p].had
        /\ inv[p].ret = "install"
        /\ "created" \in inv[p].ev

\* CURRENT_FILE held a record whose directory was on disk when main started
Usable(p) == inv[p].ptr0.state = "json" /\ inv[p].ptr0.path[2] \in inv[p].had

\* C7: an invocation with --no-update that ran to its end never called the
\* provider and never wrote CURRENT_FILE; it went on to run the recorded
\* directory exactly when CURRENT_FILE existed and its directory was on
\* disk, and otherwise ended in the "No installed version found" exit
\* without a launch.
C7_SkipUpdate ==
    \A p \in Procs :
        (inv[p].no_update /\ Finished(p) /\ inv[p].result # "killed")
        => /\ "provider" \notin inv[p].ev
           /\ "write" \notin inv[p].ev
           /\ ("ensure_venv" \in inv[p].ev) <=> Usable(p)
           /\ inv[p].result = "launched" => inv[p].py = inv[p].ptr0.path
           /\ ~Usable(p) => inv[p].result = "SystemExit" /\ "launch" \notin inv[p].ev

\* no flag, CURRENT_FILE records the latest sha and its directory is on disk
UpToDate(p) ==
    /\ ~inv[p].no_update /\ ~inv[p].force
    /\ inv[p].latest_sha \in inv[p].had
    /\ inv[p].ptr0 = PointerRecord(inv[p].latest_sha, VersionPath(inv[p].latest_sha))

\* C8: such an invocation downloads nothing, creates no directory, installs
\* nothing, does not touch CURRENT_FILE, and what it runs is the directory
\* CURRENT_FILE records.
C8_UpToDateRunsCurrent ==
    \A p \in Procs :
        UpToDate(p)
        => /\ inv[p].ev \cap {"fetch", "extract", "created", "pip_ok", "write"} = {}
           /\ pointer = inv[p].ptr0
           /\ inv[p].ret \in {"none", "run"}
           /\ inv[p].ret = "run" => inv[p].installed_dir = inv[p].ptr0.path
           /\ inv[p].result = "launched" => inv[p].py = inv[p].ptr0.path

C8_Witness ==
    \E p \in Procs :
        /\ UpToDate(p)
        /\ inv[p].result = "launched"
        /\ inv[p].py = inv[p].ptr0.path

\* --force, CURRENT_FILE records the latest sha and its directory is on disk
ForcedSame(p) ==
    /\ ~inv[p].no_update /\ inv[p].force
    /\ inv[p].latest_sha \in inv[p].had
    /\ inv[p].ptr0 = PointerRecord(inv[p].latest_sha, VersionPath(inv[p].latest_sha))

\* C9: such an invocation takes the install branch without a download and
\* without creating a directory; when it reaches the launch it has called
\* ensure_venv and pip_install_project again and has written CURRENT_FILE
\* again, with the same sha.
C9_ForceRedoesPreparation ==
    \A p \in Procs :
        ForcedSame(p)
        => /\ inv[p].ev \cap {"fetch", "extract", "created"} = {}
           /\ inv[p].ret \in {"none", "install"}
           /\ inv[p].result = "launched" =>
                 /\ {"ensure_venv", "venv_ok", "pip_ok", "write", "written"} \subseteq inv[p].ev
                 /\ pointer = inv[p].ptr0
                 /\ inv[p].py = inv[p].ptr0.path

\* ... with an environment that was already there
C9_Witness ==
    \E p \in Procs :
        /\ ForcedSame(p)
        /\ inv[p].result = "launched"
        /\ "venv_create" \notin inv[p].ev
        /\ "written" \in inv[p].ev

\* C10: install_from_commit_zip for a sha whose directory exists returns that
\* directory in one step that downloads nothing and leaves the versions
\* directory as it is; an invocation that found the directory of its sha on
\* disk never downloads, extracts or copies.
C10_InstallIdempotent ==
    [][\A p \in Procs :
          /\ (/\ At(p, "install_from_commit_zip")
              /\ PathExists(target(p))
              /\ inv'[p].pc \notin {"install_from_commit_zip", "idle"})
             => /\ inv'[p].pc = "ensure_venv"
                /\ inv'[p].installed_dir = target(p)
                /\ inv'[p].ev = inv[p].ev \cup {"install_ok"}
                /\ store' = store
          /\ (inv'[p].ret = "install" /\ inv'[p].latest_sha \in inv'[p].had)
             => /\ inv'[p].ev \cap {"fetch", "extract", "created"} = {}
                /\ store'[inv'[p].latest_sha] = store[inv'[p].latest_sha]]_vars

\* the second install of a sha
C10_Witness ==
    \E p \in Procs :
        /\ inv[p].ret = "install"
        /\ inv[p].latest_sha \in inv[p].had
        /\ "install_ok" \in inv[p].ev
        /\ inv[p].installed_dir = target(p)
        /\ store[inv[p].latest_sha] = "complete"
        /\ inv[p].result = "launched"

\* C11: an invocation without --no-update that reached the launch leaves
\* CURRENT_FILE at a complete directory whose venv has pip and the project
\* installed, whatever an earlier invocation that was killed or failed left
\* on disk, and that is the directory it runs.
C11_NextRunSelfHeals ==
    \A p \in Procs :
        (inv[p].result = "launched" /\ ~inv[p].no_update)
        => /\ pointer.state = "json"
           /\ inv[p].py = pointer.path
           /\ store[pointer.sha] = "complete"
           /\ venv[pointer.sha] = "created"
           /\ deps[pointer.sha]

\* the invocation ended in a failed query of the default branch or of the
\* latest commit
QueryFailed(p) ==
    /\ Failed(p)
    /\ ~inv[p].no_update
    /\ "provider" \in inv[p].ev
    /\ inv[p].latest_sha = NoSha

\* C12: an invocation without --no-update whose query of the default branch
\* or of the latest commit failed ends with a non-zero status, having
\* installed nothing, created no directory, left CURRENT_FILE as it was and
\* launched nothing, also when CURRENT_FILE records a directory that is on
\* disk; without --no-update nothing is run before both queries answered.
C12_ProviderFailureFatal ==
    \A p \in Procs :
      /\ (~inv[p].no_update /\ inv[p].latest_sha = NoSha)
         => inv[p].installed_dir = NoPath /\ "launch" \notin inv[p].ev
      /\ QueryFailed(p)
        => /\ inv[p].result \in {"URLError", "RuntimeError"}
           /\ inv[p].exit # 0
           /\ inv[p].ev \cap {"fetch", "extract", "created", "install_ok", "ensure_venv",
                              "venv_create", "pip_ok", "write", "launch"} = {}
           /\ inv[p].py = NoPath
           /\ pointer = inv[p].ptr0
           /\ {r \in Revs : store[r] # "absent"} = inv[p].had

\* ... with a recorded version that could have been run
C12_Witness ==
    \E p \in Procs :
        /\ QueryFailed(p)
        /\ inv[p].ptr0.state = "json"
        /\ inv[p].ptr0.sha \in inv[p].had
        /\ venv[inv[p].ptr0.sha] = "created"
        /\ deps[inv[p].ptr0.sha]

\* C13: an invocation that launched exits with the status the application
\* exited with, zero or not; an invocation that ended in an exception or in
\* SystemExit(message) exits with a non-zero status and has launched nothing.
C13_ExitCodeForwarded ==
    \A p \in Procs :
        /\ ("launch" \in inv[p].ev) <=> (inv[p].result = "launched")
        /\ inv[p].result = "launched"
           => /\ inv[p].app_exit \in AppExitCodes
              /\ inv[p].exit = inv[p].app_exit
        /\ Failed(p)
           => /\ inv[p].exit # 0
              /\ inv[p].app_exit = NoExit

\* the application failed and its status came through
C13_Witness ==
    \E p \in Procs :
        /\ inv[p].result = "launched"
        /\ inv[p].app_exit # 0
        /\ inv[p].exit = inv[p].app_exit

\* a step of an invocation, as opposed to a step of the provider or of the
\* user who removes a directory by hand
SystemStep == \E p \in Procs : ~At(p, "idle") \/ inv'[p].pc # "idle"

\* C14: no step of an invocation, whatever its flags and however it ends,
\* removes a directory of VERSIONS_DIR or removes CURRENT_FILE: the shas that
\* have a directory only grow in number, and CURRENT_FILE, once there, stays.
C14_NothingDeleted ==
    [][SystemStep =>
          /\ \A r \in Revs : store[r] # "absent" => store'[r] # "absent"
          /\ pointer.state # "absent" => pointer'.state # "absent"]_vars

\* two versions side by side, the older one kept after the update
C14_Witness ==
    \E p \in Procs :
        /\ inv[p].result = "launched"
        /\ "created" \in inv[p].ev
        /\ "written" \in inv[p].ev
        /\ inv[p].ptr0.state = "json"
        /\ inv[p].ptr0.sha # pointer.sha
        /\ \A r \in Revs : store[r] # "absent"

\* C15: whenever CURRENT_FILE holds a record, its "sha" is a commit sha r and
\* its "path" is VERSIONS_DIR / r, the directory named by r itself; and an
\* invocation that started with no CURRENT_FILE and an empty VERSIONS_DIR and
\* has written the record for the latest sha leaves exactly
\* (latest_sha, VERSIONS_DIR / latest_sha) there.
C15_PointerNamesItsDirectory ==
    /\ pointer.state = "json"
       => /\ pointer.sha \in Revs
          /\ pointer.path = VersionPath(pointer.sha)
    /\ \A p \in Procs :
          "written" \in inv[p].ev
          => pointer = PointerRecord(inv[p].latest_sha,
                                     VersionPath(inv[p].latest_sha))

\* the fresh install: nothing on disk at start, record written, app launched
C15_Witness ==
    \E p \in Procs :
        /\ inv[p].ptr0 = PointerAbsent
        /\ inv[p].had = {}
        /\ ~inv[p].force
        /\ inv[p].result = "launched"
        /\ "written" \in inv[p].ev
        /\ pointer = PointerRecord(inv[p].latest_sha, VersionPath(inv[p].latest_sha))
        /\ store[pointer.sha] = "complete"

\* C16: an invocation that launches the app after ensure_venv found no
\* interpreter in the project directory has created the venv and has then
\* run pip_install_project on it, so the venv it launches from holds the
\* project's dependencies; this on the install branch, on the up-to-date
\* branch and on the --no-update branch alike.
C16_CreatedEnvGetsDependencies ==
    \A p \in Procs :
        (inv[p].result = "launched" /\ "venv_create" \in inv[p].ev)
        => /\ "pip_ok" \in inv[p].ev
           /\ deps[inv[p].py[2]]

\* C17: ensure_venv called on a project directory whose venv interpreter
\* exists returns that interpreter and changes nothing on disk, whichever
\* branch of main called it; hence the venv of a directory is only ever
\* created when the directory has none.
C17_EnsureVenvIdempotent ==
    [][\A p \in Procs :
          /\ (/\ At(p, "ensure_venv")
              /\ PyExists(inv[p].installed_dir)
              /\ inv'[p] # inv[p]
              /\ inv'[p].result # "killed")
             => /\ Disk' = Disk
                /\ inv'[p].py = inv[p].installed_dir
                /\ inv'[p].pc = AfterEnsureVenv(p)
                /\ "venv_create" \notin inv'[p].ev
          /\ At(p, "venv_create") => venv[project(p)] = "none"]_vars

\* a launch from a venv that ensure_venv found in place and did not rebuild
C17_Witness ==
    \E p \in Procs :
        /\ inv[p].result = "launched"
        /\ {"ensure_venv", "venv_ok"} \subseteq inv[p].ev
        /\ "venv_create" \notin inv[p].ev
        /\ venv[inv[p].py[2]] = "created"

\* C18: an invocation whose downloaded archive unpacks to no top-level
\* directory ends in the RuntimeError "Unexpected zip layout" with a non-zero
\* status; VERSIONS_DIR / latest_sha has not been created, CURRENT_FILE is as
\* the invocation found it, no venv was touched and the app was not launched.
C18_BadLayoutCommitsNothing ==
    \A p \in Procs :
        "no_roots" \in inv[p].ev
        => /\ inv[p].result = "RuntimeError"
           /\ inv[p].exit # 0
           /\ store[inv[p].latest_sha] = "absent"
           /\ \A r \in Revs : r \in inv[p].had <=> store[r] # "absent"
           /\ pointer = inv[p].ptr0
           /\ inv[p].ev \cap {"created", "install_ok", "ensure_venv", "write",
                              "written", "launch"} = {}

\* the bad archive met while an older version is installed and recorded
C18_Witness ==
    \E p \in Procs :
        /\ "no_roots" \in inv[p].ev
        /\ inv[p].result = "RuntimeError"
        /\ inv[p].ptr0.state = "json"
        /\ inv[p].ptr0.sha # inv[p].latest_sha
        /\ store[inv[p].ptr0.sha] = "complete"

\* C19: seed_data_if_missing never overwrites an existing data file, and
\* however it ends (file already there, file copied, no source found: warning)
\* the install branch goes on: an invocation that has installed the
\* dependencies and has ended has written CURRENT_FILE and launched the app.
C19_SeedingNeverAborts ==
    \A p \in Procs :
        /\ ("seeded" \in inv[p].ev) => (data = "seeded")
        /\ ("pip_ok" \in inv[p].ev /\ Finished(p))
           => /\ "written" \in inv[p].ev
              /\ inv[p].result = "launched"

\* C20: with two invocations at once, an invocation that holds a directory as
\* installed (install_from_commit_zip returned it, so that ensure_venv,
\* write_current and run_app work on it) never does so while the other
\* invocation is still copying files into that directory.
C20_NoUseDuringCopy ==
    \A p \in Procs :
        (inv[p].installed_dir # NoPath /\ ~At(p, "idle"))
        => ~\E q \in Procs \ {p} :
               /\ At(q, "copytree_copy")
               /\ target(q) = inv[p].installed_dir

TypeOK ==
    /\ store \in [Revs -> {"absent", "partial", "complete"}]
    /\ venv \in [Revs -> {"none", "partial", "created"}]
    /\ deps \in [Revs -> BOOLEAN]
    /\ pointer.state \in {"absent", "truncated", "json"}
    /\ data \in {"absent", "user", "seeded"}
    /\ head \in Revs
====
